---- MODULE Spec2Model ----
(***************************************************************************)
(* Altura booking backend: the two realisations of POST /api/booking and   *)
(* GET /api/health kept in the repository.                                 *)
(*                                                                         *)
(*   variant = "server"  src/server.js         (Resend send-API)           *)
(*   variant = "secure"  src/server-secure.js  (nodemailer SMTP transport) *)
(*                                                                         *)
(* Text is a sequence of one-character strings, so that trimming,          *)
(* escaping, mailbox validation and e-mail normalisation are computed      *)
(* character by character as the libraries the handlers call compute them. *)
(* Request bodies are the objects express.json() hands to the route: a     *)
(* request the body parser rejects (malformed JSON, oversized body) never  *)
(* reaches the route's middleware and is not modelled.                     *)
(***************************************************************************)
EXTENDS Integers, Sequences, FiniteSets, Bags, TLC

VARIABLES
  variant,    \* which of the two server files this process runs
  env,        \* names of the environment variables that are set
  phase,      \* "boot" | "serving" | "exited"
  now,        \* the process clock, in ticks of TickMs
  hits,       \* rate-limit store: key -> requests counted in its window
  resetTime,  \* rate-limit store: key -> end of its window (ms)
  admitted,   \* history: per client, requests the limiter passed on in its window
  throttled,  \* history: clients that have been answered 429
  inflight,   \* bag of booking requests suspended on an awaited send
  last        \* the response written most recently

vars == <<variant, env, phase, now, hits, resetTime, admitted, throttled, inflight, last>>

---------------------------------------------------------------------------
(* Bounds of the model *)

MaxTicks == 2
MaxHits == 6
MaxInFlight == 3
IntakeMaxHits == 2

---------------------------------------------------------------------------
(* Text helpers *)

Fields == {"fullName", "email", "phone", "organization",
           "serviceType", "preferredDate", "preferredTime", "notes"}

Whitespace == {" ", "\t", "\n"}

RECURSIVE LTrim(_)
LTrim(s) == IF s # <<>> /\ Head(s) \in Whitespace THEN LTrim(Tail(s)) ELSE s

RECURSIVE RTrim(_)
RTrim(s) ==
  IF s # <<>> /\ s[Len(s)] \in Whitespace THEN RTrim(SubSeq(s, 1, Len(s) - 1)) ELSE s

\* validator.js trim(): whitespace removed from both ends
trim(s) == RTrim(LTrim(s))

\* validator.js escape(): the characters & " ' < > / \ become HTML entities
\* (so does the grave accent, which no modelled input contains)
EscapeChar(c) ==
  CASE c = "&"  -> <<"&", "a", "m", "p", ";">>
    [] c = "\"" -> <<"&", "q", "u", "o", "t", ";">>
    [] c = "'"  -> <<"&", "#", "x", "2", "7", ";">>
    [] c = "<"  -> <<"&", "l", "t", ";">>
    [] c = ">"  -> <<"&", "g", "t", ";">>
    [] c = "/"  -> <<"&", "#", "x", "2", "F", ";">>
    [] c = "\\" -> <<"&", "#", "x", "5", "C", ";">>
    [] OTHER    -> <<c>>

RECURSIVE escape(_)
escape(s) == IF s = <<>> THEN <<>> ELSE EscapeChar(Head(s)) \o escape(Tail(s))

\* express-validator notEmpty(): the (already trimmed) value is not the empty string
notEmpty(s) == s # <<>>

IndexesOf(s, ch) == {i \in 1..Len(s) : s[i] = ch}

MaxOf(S) == CHOOSE m \in S : \A n \in S : n <= m
MinOf(S) == CHOOSE m \in S : \A n \in S : m <= n

\* String.prototype.includes
includes(s, ch) == IndexesOf(s, ch) # {}

\* String.prototype.split on a one-character separator
RECURSIVE split(_, _)
split(s, ch) ==
  IF ~includes(s, ch) THEN <<s>>
  ELSE LET k == MinOf(IndexesOf(s, ch))
       IN  <<SubSeq(s, 1, k - 1)>> \o split(SubSeq(s, k + 1, Len(s)), ch)

LowerOf ==
  [c \in {"A", "B", "G", "J", "K", "X"} |->
     CASE c = "A" -> "a" [] c = "B" -> "b" [] c = "G" -> "g"
       [] c = "J" -> "j" [] c = "K" -> "k" [] c = "X" -> "x"]

\* String.prototype.toLowerCase
toLowerCase(s) == [i \in 1..Len(s) |-> IF s[i] \in DOMAIN LowerOf THEN LowerOf[s[i]] ELSE s[i]]

RemoveAll(s, ch) == SelectSeq(s, LAMBDA c : c # ch)

Letters == {"a", "b", "c", "d", "g", "i", "j", "k", "l", "m", "o", "s", "t", "x",
            "A", "B", "G", "J", "K", "X"}
Digits == {"0", "1", "2", "5", "7", "9"}

---------------------------------------------------------------------------
(* validator.js isEmail / normalizeEmail, as express-validator's           *)
(* body('email').isEmail().normalizeEmail() calls them (default options)   *)

\* str.split('@'): domain = parts.pop(), user = parts.join('@')
DomainOf(s) ==
  IF includes(s, "@") THEN SubSeq(s, MaxOf(IndexesOf(s, "@")) + 1, Len(s)) ELSE s

UserOf(s) ==
  IF includes(s, "@") THEN SubSeq(s, 1, MaxOf(IndexesOf(s, "@")) - 1) ELSE <<>>

AllIn(s, S) == \A i \in 1..Len(s) : s[i] \in S

\* isFQDN with require_tld: two labels or more, an alphabetic top-level
\* label of two letters or more, labels of letters, digits and inner hyphens
isFQDN(d) ==
  LET parts == split(d, ".")
      tld   == parts[Len(parts)]
  IN  /\ Len(parts) >= 2
      /\ Len(tld) >= 2
      /\ AllIn(tld, Letters)
      /\ \A i \in 1..Len(parts) :
           /\ parts[i] # <<>>
           /\ AllIn(parts[i], Letters \cup Digits \cup {"-"})
           /\ Head(parts[i]) # "-"
           /\ parts[i][Len(parts[i])] # "-"

\* characters of an unquoted local part (emailUserUtf8Part)
UserChars ==
  Letters \cup Digits \cup
  {"!", "#", "$", "%", "&", "'", "*", "+", "-", "/", "=", "?", "^", "_", "{", "|", "}", "~"}

\* characters of a quoted local part (quotedEmailUserUtf8): whitespace and
\* every printable character but the double quote and the backslash
QuotedChars == UserChars \cup Whitespace \cup {"<", ">", "(", ")", ",", ".", ":", ";", "@", "[", "]"}

isEmail(s) ==
  LET user   == UserOf(s)
      domain == DomainOf(s)
  IN  /\ isFQDN(domain)
      /\ IF user # <<>> /\ Head(user) = "\""
         THEN AllIn(SubSeq(user, 2, Len(user) - 1), QuotedChars)
         ELSE LET user_parts == split(user, ".")
              IN  \A i \in 1..Len(user_parts) :
                    user_parts[i] # <<>> /\ AllIn(user_parts[i], UserChars)

gmail_com == <<"g", "m", "a", "i", "l", ".", "c", "o", "m">>
googlemail_com == <<"g", "o", "o", "g", "l", "e">> \o SubSeq(gmail_com, 2, 9)

\* normalizeEmail: the domain lower-cased; a Gmail local part loses its
\* +subaddress and its dots and googlemail.com becomes gmail.com; the local
\* part lower-cased.  (The modelled addresses are on none of the other
\* providers the function treats specially.)
normalizeEmail(s) ==
  LET domain == toLowerCase(DomainOf(s))
      user   == UserOf(s)
  IN  IF domain \in {gmail_com, googlemail_com}
      THEN toLowerCase(RemoveAll(split(user, "+")[1], ".")) \o <<"@">> \o gmail_com
      ELSE toLowerCase(user) \o <<"@">> \o domain

---------------------------------------------------------------------------
(* Configuration *)

Variants == {"server", "secure"}

\* the environment variables each file reads for its mail set-up
RequiredEnv(v) ==
  IF v = "server" THEN {"RESEND_API_KEY", "FROM_EMAIL", "ADMIN_EMAIL"}
                  ELSE {"EMAIL_USER", "EMAIL_PASS", "RECEIVER_EMAIL"}

Undefined == <<"undefined">>

SenderAddress == <<"s", "@", "x", ".", "c", "o">>
AdminAddress == <<"o", "@", "x", ".", "c", "o">>

\* process.env.NAME
Getenv(k) ==
  IF k \notin env THEN Undefined
  ELSE IF k \in {"ADMIN_EMAIL", "RECEIVER_EMAIL"} THEN AdminAddress
  ELSE SenderAddress

\* rateLimit({ windowMs: 15 * 60 * 1000, max: 5, ... })
windowMs == 15 * 60 * 1000
maxRaised == 5 + 1
max == 5

TickMs == windowMs \div 2
nowMs == now * TickMs

Clients == {"ip1", "ip2"}

\* express-rate-limit's default keyGenerator: the client's address
keyGenerator(c) == c

---------------------------------------------------------------------------
(* Validation and sanitisation *)

Required == {"fullName", "email", "serviceType", "preferredDate", "preferredTime"}

\* server.js validateBooking: "next", or the error of the 400 it answers
validateBooking(body) ==
  IF \E f \in Required : body[f] = <<>> THEN "Missing required fields"
  ELSE IF ~includes(body["email"], "@") THEN "Invalid email format"
  ELSE "next"

\* server-secure.js: the fields whose validators record an error
validationErrors(body) ==
  {f \in Required \ {"email"} : ~notEmpty(trim(body[f]))}
    \cup (IF isEmail(body["email"]) THEN {} ELSE {"email"})

\* server-secure.js: req.body after the chain's sanitizers have run
Sanitized(body) ==
  [f \in Fields |-> IF f = "email" THEN normalizeEmail(body[f]) ELSE escape(trim(body[f]))]

\* the fields the handler destructures from req.body
ReqBody(v, body) == IF v = "secure" THEN Sanitized(body) ELSE body

\* the error of the 400 response, or "none" when the request is accepted
Rejection(v, body) ==
  IF v = "secure"
  THEN IF validationErrors(body) # {} THEN "Invalid input data" ELSE "none"
  ELSE IF validateBooking(body) # "next" THEN validateBooking(body) ELSE "none"

---------------------------------------------------------------------------
(* Message rendering.  An html body is the sequence of the values the      *)
(* template literal interpolates, in order; the markup between them is     *)
(* fixed text.                                                             *)

\* a || 'placeholder'
OrElse(a, placeholder) == IF a = <<>> THEN placeholder ELSE a

NA == <<"N", "/", "A">>
NotProvided == <<"N", "o", "t", " ", "p", "r", "o", "v", "i", "d", "e", "d">>
None == <<"N", "o", "n", "e">>
Individual == <<"I", "n", "d", "i", "v", "i", "d", "u", "a", "l">>

visitorEmail(b) ==
  <<b["fullName"], b["serviceType"], b["preferredDate"], b["preferredTime"]>>

companyEmail(b) ==
  <<b["fullName"], b["email"], OrElse(b["phone"], NA), OrElse(b["organization"], NA),
    b["serviceType"], b["preferredDate"], b["preferredTime"], OrElse(b["notes"], NA)>>

bookingHtml(b) ==
  <<b["fullName"], b["email"], OrElse(b["phone"], NotProvided),
    OrElse(b["organization"], NotProvided), b["serviceType"], b["preferredDate"],
    b["preferredTime"], OrElse(b["notes"], None)>>

\* the messages the handler hands to the mail collaborator, in order
Sends(v, b) ==
  IF v = "secure"
  THEN << [from |-> Getenv("EMAIL_USER"), to |-> b["email"], replyTo |-> Undefined,
           subject |-> <<b["fullName"], OrElse(b["organization"], Individual)>>,
           html |-> visitorEmail(b)],
          [from |-> Getenv("EMAIL_USER"), to |-> Getenv("RECEIVER_EMAIL"),
           replyTo |-> b["email"],
           subject |-> <<b["fullName"], OrElse(b["organization"], Individual)>>,
           html |-> companyEmail(b)] >>
  ELSE << [from |-> Getenv("FROM_EMAIL"), to |-> Getenv("ADMIN_EMAIL"),
           replyTo |-> Undefined, subject |-> <<b["fullName"]>>,
           html |-> bookingHtml(b)] >>

---------------------------------------------------------------------------
(* Inputs *)

\* the example payload of a valid booking
Base ==
  [f \in Fields |->
     CASE f = "fullName"      -> <<"J">>
       [] f = "email"         -> <<"j", "@", "x", ".", "c", "o">>
       [] f = "serviceType"   -> <<"c">>
       [] f = "preferredDate" -> <<"d">>
       [] f = "preferredTime" -> <<"t">>
       [] OTHER               -> <<>>]

\* one field of the example replaced: absent or empty, blank, padded,
\* carrying HTML-significant characters, or an address of another shape
Variations ==
  { <<"fullName", <<>>>>, <<"fullName", <<" ">>>>, <<"fullName", <<" ", "J", " ">>>>,
    <<"fullName", <<"<", "b", ">">>>>, <<"fullName", <<"&">>>>,
    <<"serviceType", <<>>>>, <<"serviceType", <<" ">>>>, <<"serviceType", <<"\"">>>>,
    <<"preferredDate", <<>>>>, <<"preferredDate", <<" ">>>>, <<"preferredDate", <<"'">>>>,
    <<"preferredTime", <<>>>>, <<"preferredTime", <<" ">>>>, <<"preferredTime", <<">">>>>,
    <<"phone", <<"<">>>>, <<"phone", <<" ">>>>,
    <<"organization", <<"&">>>>, <<"organization", <<"A">>>>,
    <<"notes", <<"'">>>>, <<"notes", <<"<", "b", ">">>>>,
    <<"email", <<>>>>,
    <<"email", <<"j", "x", ".", "c", "o">>>>,
    <<"email", <<"@">>>>,
    <<"email", <<" ", "j", "@", "x", ".", "c", "o">>>>,
    <<"email", <<"J", "@", "x", ".", "c", "o">>>>,
    <<"email", <<"j", "&", "k", "@", "x", ".", "c", "o">>>>,
    <<"email", <<"\"", "<", "b", ">", "\"", "@", "x", ".", "c", "o">>>>,
    <<"email", <<"j", ".", "k", "+", "s", "@">> \o gmail_com>> }

Payloads == {Base} \cup {[Base EXCEPT ![v[1]] = v[2]] : v \in Variations}

\* the payloads of the concurrent specification: one valid, one invalid
LoadPayloads == {Base, [Base EXCEPT !["serviceType"] = <<>>]}

\* the error texts the mail collaborator may fail with
Errors == {"EAUTH", "ETIMEDOUT"}

EmptyBody == [f \in Fields |-> <<>>]

NoResponse ==
  [kind |-> "none", client |-> "none", body |-> EmptyBody, status |-> 0, json |-> "",
   calls |-> <<>>, logged |-> "none"]

---------------------------------------------------------------------------
(* Start-up *)

Init ==
  /\ variant \in Variants
  /\ env = RequiredEnv(variant)
  /\ phase = "boot"
  /\ now = 0
  /\ hits = [k \in Clients |-> 0]
  /\ resetTime = [k \in Clients |-> 0]
  /\ admitted = [c \in Clients |-> 0]
  /\ throttled = {}
  /\ inflight = EmptyBag
  /\ last = NoResponse

\* the intake specification also starts processes whose environment lacks
\* one of the variables
InitIntake ==
  /\ variant \in Variants
  /\ env \in {RequiredEnv(variant)} \cup {RequiredEnv(variant) \ {k} : k \in RequiredEnv(variant)}
  /\ phase = "boot"
  /\ now = 0
  /\ hits = [k \in Clients |-> 0]
  /\ resetTime = [k \in Clients |-> 0]
  /\ admitted = [c \in Clients |-> 0]
  /\ throttled = {}
  /\ inflight = EmptyBag
  /\ last = NoResponse

\* server.js exits when a required variable is missing; server-secure.js
\* builds the transport from whatever is set, logs the outcome of
\* transporter.verify and listens
StartsServing(v, e) == v = "secure" \/ RequiredEnv(v) \subseteq e

Startup ==
  /\ phase = "boot"
  /\ phase' = IF StartsServing(variant, env) THEN "serving" ELSE "exited"
  /\ UNCHANGED <<variant, env, now, hits, resetTime, admitted, throttled, inflight, last>>

---------------------------------------------------------------------------
(* POST /api/booking *)

\* a key's window is unset or has elapsed at time t
WindowOverNever(rt, t) == FALSE
WindowOver(rt, t) == rt <= t

\* the store's increment of a key's counter
IncrementLost(h) == h
Increment(h) == h + 1

\* the limiter refuses when the incremented counter exceeds max
Exceeds(totalHits) == totalHits > max

TooMany(v) ==
  IF v = "secure"
  THEN "Too many booking requests from this IP, please try again after 15 minutes."
  ELSE "Too many booking requests. Please try again later."

Confirmation(v) ==
  IF v = "secure" THEN "Booking confirmed! Check your email for confirmation."
                  ELSE "Booking submitted successfully"

\* the body of the 500 response; the caught error is only logged
FailureJsonLeak(v, error) == error
FailureJson(v, error) ==
  IF v = "secure" THEN "Failed to process booking. Please try again later."
                  ELSE "Failed to send booking. Please try again or contact us directly."

\* a send handed to the mail collaborator and awaited
Call(msg) == [msg |-> msg, result |-> "pending"]

\* after the n-th of total sends settles: the next send is issued only when
\* the awaited one did not throw
ProceedsRegardless(ok, n, total) == n < total
Proceeds(ok, n, total) == ok /\ n < total

\* The request runs from the limiter to its first await in one turn of the
\* event loop: window initialisation, increment, check, validation,
\* rendering, and the first send.
Booking(c, body) ==
  /\ phase = "serving"
  /\ LET key       == keyGenerator(c)
         expired   == WindowOver(resetTime[key], nowMs)
         totalHits == Increment(IF expired THEN 0 ELSE hits[key])
         passed    == IF expired THEN 0 ELSE admitted[c]
         b         == ReqBody(variant, body)
         answer(status, json) ==
           [kind |-> "booking", client |-> c, body |-> body, status |-> status,
            json |-> json, calls |-> <<>>, logged |-> "none"]
     IN  /\ hits' = [hits EXCEPT ![key] = totalHits]
         /\ resetTime' = [resetTime EXCEPT ![key] = IF expired THEN nowMs + windowMs ELSE @]
         /\ IF Exceeds(totalHits)
            THEN /\ last' = answer(429, TooMany(variant))
                 /\ throttled' = throttled \cup {c}
                 /\ admitted' = [admitted EXCEPT ![c] = passed]
                 /\ UNCHANGED inflight
            ELSE /\ admitted' = [admitted EXCEPT ![c] = passed + 1]
                 /\ UNCHANGED throttled
                 /\ IF Rejection(variant, body) # "none"
                    THEN /\ last' = answer(400, Rejection(variant, body))
                         /\ UNCHANGED inflight
                    ELSE /\ inflight' = inflight (+) SetToBag({
                                [client |-> c, body |-> body,
                                 calls |-> <<Call(Sends(variant, b)[1])>>] })
                         /\ UNCHANGED last
  /\ UNCHANGED <<variant, env, phase, now>>

\* The awaited send of suspended request r settles: fulfilled
\* (outcome = "ok") or rejected with an error.
SendSettles(r, outcome) ==
  /\ r \in BagToSet(inflight)
  /\ LET ok      == outcome = "ok"
         n       == Len(r.calls)
         plan    == Sends(variant, ReqBody(variant, r.body))
         settled == [r.calls EXCEPT ![n].result = outcome]
         rest    == inflight (-) SetToBag({r})
     IN  IF Proceeds(ok, n, Len(plan))
         THEN /\ inflight' = rest (+) SetToBag({[r EXCEPT !.calls = Append(settled, Call(plan[n + 1]))]})
              /\ UNCHANGED last
         ELSE /\ inflight' = rest
              /\ last' = [kind |-> "booking", client |-> r.client, body |-> r.body,
                          status |-> IF ok THEN 200 ELSE 500,
                          json |-> IF ok THEN Confirmation(variant)
                                         ELSE FailureJson(variant, outcome),
                          calls |-> settled,
                          logged |-> IF ok THEN "none" ELSE outcome]
  /\ UNCHANGED <<variant, env, phase, now, hits, resetTime, admitted, throttled>>

---------------------------------------------------------------------------
(* GET /api/health: no limiter on the route, res.json with the default 200 *)

HealthLimited(c) ==
  /\ phase = "serving"
  /\ LET key       == keyGenerator(c)
         expired   == WindowOver(resetTime[key], nowMs)
         totalHits == Increment(IF expired THEN 0 ELSE hits[key])
     IN  /\ hits' = [hits EXCEPT ![key] = totalHits]
         /\ resetTime' = [resetTime EXCEPT ![key] = IF expired THEN nowMs + windowMs ELSE @]
         /\ last' = [kind |-> "health", client |-> c, body |-> EmptyBody,
                     status |-> IF Exceeds(totalHits) THEN 429 ELSE 200,
                     json |-> "Server is running", calls |-> <<>>, logged |-> "none"]
  /\ UNCHANGED <<variant, env, phase, now, admitted, throttled, inflight>>

Health(c) ==
  /\ phase = "serving"
  /\ last' = [kind |-> "health", client |-> c, body |-> EmptyBody, status |-> 200,
              json |-> "Server is running", calls |-> <<>>,
              logged |-> "none"]
  /\ UNCHANGED <<variant, env, phase, now, hits, resetTime, admitted, throttled, inflight>>

---------------------------------------------------------------------------
(* The clock *)

Tick ==
  /\ phase = "serving"
  /\ now < MaxTicks
  /\ now' = now + 1
  /\ UNCHANGED <<variant, env, phase, hits, resetTime, admitted, throttled, inflight, last>>

---------------------------------------------------------------------------
(* Specifications *)

Outcomes == {"ok"} \cup Errors
LoadOutcomes == {"ok", "EAUTH"}

\* requests of client c counted in its running window
Counted(c) == IF resetTime[c] <= nowMs THEN 0 ELSE hits[c]

\* two clients; requests arrive while at most one earlier request is
\* suspended on a send
Next ==
  \/ Startup
  \/ \E c \in Clients, body \in LoadPayloads :
       /\ Counted(c) < MaxHits
       /\ Booking(c, body)
       /\ BagCardinality(inflight') <= 1
  \/ \E r \in BagToSet(inflight), outcome \in LoadOutcomes : SendSettles(r, outcome)
  \/ \E c \in Clients : Health(c)
  \/ Tick

Spec == Init /\ [][Next]_vars

\* one client, up to MaxInFlight requests suspended on their sends at once
NextConcurrent ==
  \/ Startup
  \/ \E body \in LoadPayloads :
       /\ Counted("ip1") < MaxHits
       /\ Booking("ip1", body)
       /\ BagCardinality(inflight') <= MaxInFlight
  \/ \E r \in BagToSet(inflight), outcome \in LoadOutcomes : SendSettles(r, outcome)
  \/ Health("ip1")
  \/ Tick

SpecConcurrent == Init /\ [][NextConcurrent]_vars

\* one client, one request at a time, every payload
NextIntake ==
  \/ Startup
  \/ \E body \in Payloads :
       /\ Counted("ip1") < IntakeMaxHits
       /\ inflight = EmptyBag
       /\ Booking("ip1", body)
  \/ \E r \in BagToSet(inflight), outcome \in Outcomes : SendSettles(r, outcome)
  \/ Health("ip1")
  \/ Tick

SpecIntake == InitIntake /\ [][NextIntake]_vars

---------------------------------------------------------------------------
(* Properties of the intake handler (SpecIntake) *)

\* every request the handler has taken on: the one answered last and the
\* ones suspended on a send
Handled ==
  (IF last.kind = "booking" /\ last.status # 429
   THEN {[body |-> last.body, calls |-> last.calls, status |-> last.status]}
   ELSE {})
    \cup {[body |-> r.body, calls |-> r.calls, status |-> 0] : r \in BagToSet(inflight)}

\* a payload that fails validation as the specification states it: a
\* required field absent or empty after trimming, or an email without a
\* mailbox on each side of an '@'
FailsValidation(body) ==
  \/ \E f \in Required : trim(body[f]) = <<>>
  \/ UserOf(body["email"]) = <<>>
  \/ DomainOf(body["email"]) = <<>>

\* C1: every booking request that passes the rate guard and whose payload
\* fails validation is answered 400, and no mail-dispatch call is made for it.
C1_InvalidRejected ==
  \A q \in Handled : FailsValidation(q.body) => q.status = 400 /\ q.calls = <<>>

\* the admin address the running file is configured with
ConfiguredAdmin == Getenv(IF variant = "secure" THEN "RECEIVER_EMAIL" ELSE "ADMIN_EMAIL")

\* C2: a valid booking whose sends do not fail makes exactly two dispatch
\* calls: the first to the submitted email, the second to the configured admin
\* address with the submitted email as its reply-address.
C2_TwoDispatches ==
  (last.kind = "booking" /\ last.status = 200) =>
    /\ Len(last.calls) = 2
    /\ last.calls[1].msg.to = last.body["email"]
    /\ last.calls[2].msg.to = ConfiguredAdmin
    /\ last.calls[2].msg.replyTo = last.body["email"]

GenericFailures ==
  {"Failed to process booking. Please try again later.",
   "Failed to send booking. Please try again or contact us directly."}

Entities == {EscapeChar(c) : c \in {"&", "\"", "'", "<", ">", "/", "\\"}}

EntityAt(s, i) ==
  \E e \in Entities : i + Len(e) - 1 <= Len(s) /\ SubSeq(s, i, i + Len(e) - 1) = e

\* an HTML-significant character that is not part of an entity
HasUnescaped(s) ==
  \E i \in 1..Len(s) :
    \/ s[i] \in {"<", ">", "\"", "'"}
    \/ s[i] = "&" /\ ~EntityAt(s, i)

\* C6: no HTML-significant character of any of the eight submitted fields
\* appears unescaped in a message body passed to the mail collaborator.
C6_BodiesEscaped ==
  \A q \in Handled : \A i \in 1..Len(q.calls) :
    \A k \in 1..Len(q.calls[i].msg.html) : ~HasUnescaped(q.calls[i].msg.html[k])

\* C7: a process started without one of its required configuration values
\* never serves: it handles no booking request and attempts no dispatch.
C7_FailFast ==
  ~(RequiredEnv(variant) \subseteq env) =>
    /\ phase # "serving"
    /\ inflight = EmptyBag
    /\ last.kind = "none"

---------------------------------------------------------------------------
(* Properties of the rate guard and the health probe (Spec, and           *)
(* SpecConcurrent for C9)                                                  *)

\* the step passes client c's request on to the intake handler: it is
\* suspended on its first send, or answered 400 by validation
Forwarded(c) ==
  \/ inflight' # inflight
  \/ last'.kind = "booking" /\ last'.client = c /\ last'.status = 400

\* C5: of the booking requests of one client identity within one rate window
\* the first five are forwarded to the intake handler and the sixth is
\* answered 429 without a dispatch call; the counter of another client
\* identity is left as it was.
C5_SixthRefused ==
  [][\A c \in Clients, body \in LoadPayloads :
       Booking(c, body) =>
         /\ Counted(c) < 5 => Forwarded(c)
         /\ Counted(c) = 5 =>
              /\ last'.kind = "booking" /\ last'.client = c /\ last'.status = 429
              /\ last'.calls = <<>>
              /\ inflight' = inflight
         /\ \A d \in Clients \ {c} :
              hits'[d] = hits[d] /\ resetTime'[d] = resetTime[d]]_vars

C5_Witness ==
  \E c \in Clients, d \in Clients :
    /\ c # d
    /\ c \in throttled /\ hits[c] = 6 /\ resetTime[c] > nowMs
    /\ last.kind = "booking" /\ last.client = d /\ last.status = 400
    /\ hits[d] = 1

\* C8: GET /api/health is answered 200 whenever the process is serving,
\* whatever sends are pending or have failed and whatever the clients' rate
\* windows hold; it leaves the rate-limit store unchanged and makes no
\* dispatch call.
C8_HealthAlways200 ==
  [][\A c \in Clients :
       /\ phase = "serving" => ENABLED Health(c)
       /\ Health(c) =>
            /\ last'.kind = "health" /\ last'.status = 200 /\ last'.calls = <<>>
            /\ hits' = hits /\ resetTime' = resetTime
            /\ inflight' = inflight]_vars

C8_Witness ==
  /\ last.kind = "health"
  /\ last.status = 200
  /\ hits[last.client] > max
  /\ resetTime[last.client] > nowMs
  /\ inflight # EmptyBag

\* C9: under any interleaving of one client's booking requests with the
\* pending sends of earlier ones, at most five requests of a client identity
\* are forwarded to the intake handler within one rate window.
C9_AtMostFiveForwarded ==
  \A c \in Clients : admitted[c] <= 5

C9_Witness ==
  \E c \in Clients :
    /\ admitted[c] = 5
    /\ last.kind = "booking" /\ last.client = c /\ last.status = 429
    /\ BagCardinality(inflight) = 2
    /\ \A r \in BagToSet(inflight) : r.client = c

\* C10: every booking request increments its client's counter, whatever its
\* later outcome, and no response takes the increment back; after the window
\* has elapsed the client's next request starts a new window with the counter
\* at one and is forwarded, also when the client had been answered 429.
C10_CountedAndReset ==
  [][/\ \A c \in Clients, body \in LoadPayloads :
          Booking(c, body) =>
            /\ resetTime[c] > nowMs =>
                 hits'[c] = hits[c] + 1 /\ resetTime'[c] = resetTime[c]
            /\ resetTime[c] <= nowMs =>
                 /\ hits'[c] = 1
                 /\ resetTime'[c] = nowMs + windowMs
                 /\ Forwarded(c)
     /\ (\E r \in BagToSet(inflight), outcome \in LoadOutcomes : SendSettles(r, outcome)) =>
          hits' = hits /\ resetTime' = resetTime]_vars

C10_Witness ==
  \E c \in Clients :
    /\ c \in throttled
    /\ hits[c] = 1 /\ admitted[c] = 1 /\ resetTime[c] > nowMs
    /\ last.kind = "booking" /\ last.client = c /\ last.status = 400

====
